---------------------------- MODULE Spec2Model ----------------------------
(***************************************************************************)
(* Model of the Bumblebee daemon lifecycle (src/src/bumblebeed.c): the     *)
(* startup pipeline of main(), the asynchronous signal handler             *)
(* handle_signal(), the event loop and the shutdown sequence.              *)
(*                                                                         *)
(* main() is modelled one statement group per action, the program counter  *)
(* pc naming the next statement group.  handle_signal() runs as one atomic *)
(* action that can interleave between any two steps of main() once the     *)
(* handlers are installed.  Collaborators whose code is not part of        *)
(* bumblebeed.c (socketClose, socketServer, start_secondary,               *)
(* stop_secondary, handle_connection, bb_run_stopwaiting) are modelled     *)
(* from the interface description of the specification.                    *)
(***************************************************************************)
EXTENDS Integers, Sequences, FiniteSets, TLC

(***************************************************************************)
(* Bounds of the model.                                                    *)
(***************************************************************************)
\* signals delivered in one run of Spec
MaxSignals == 3
\* SIGPIPE signals delivered in one run of SpecPipe
MaxPipes == 12
\* other signals delivered in one run of SpecPipe
MaxOthers == 1
\* signals delivered in one run of SpecLive
MaxLiveSignals == 2
\* signals sent to the daemon in one run of SpecBroken
MaxBrokenSignals == 2
\* SIGPIPE signals raised by log writes in one run of SpecBroken
MaxRaised == 16

(***************************************************************************)
(* Program constants.                                                      *)
(***************************************************************************)
EXIT_SUCCESS == 0
EXIT_FAILURE == 1
\* the literal of "if (sigpipes <= 10)"
SIGPIPE_LIMIT == 10

Signals == {"SIGHUP", "SIGPIPE", "SIGINT", "SIGQUIT", "SIGTERM"}

\* the nine steps of the shutdown sequence, in source order
ShutdownSteps ==
    <<"connections_fini", "unlink", "set_exit", "power", "dbus_fini",
      "closelog", "pidfile_remove", "stop_all", "close_xerr">>

StepNames == {ShutdownSteps[i] : i \in 1..Len(ShutdownSteps)}

VARIABLES
    pc,             \* position of main()
    runmode,        \* bb_status.runmode
    bb_socket,      \* bb_status.bb_socket: "closed" (-1) or "open"
    handlers,       \* signals whose disposition is handle_signal
    sigpipes,       \* static int sigpipes of handle_signal
    dowait,         \* process runner's wait flag, cleared by bb_run_stopwaiting
    config,         \* bb_config fields read by main()
    pfh,            \* pidfile handle: "NULL" or "held"
    x_err_fd,       \* bb_status.x_err_fd: "closed" (-1) or "open"
    logOpen,        \* logging subsystem open
    dbusUp,         \* bus service initialised
    cardOn,         \* power state of the discrete GPU
    sockPath,       \* socket path exists on the filesystem
    unlinkResult,   \* outcome of unlink(socket_path): "none", "ok", "failed"
    pidWritten,     \* PID persisted into the pidfile
    exitCode,       \* exit status of the daemon process, -1 while alive
    parentExit,     \* exit status of the parent left behind by fork, -1 if none
    failCause,      \* cause logged by a fatal startup condition
    \* ---- observation of the run (history) ----
    nSig,           \* signals other than SIGPIPE delivered
    nPipe,          \* SIGPIPE signals delivered
    nTerm,          \* SIGTERM signals delivered
    pipeLogs,       \* log lines written about SIGPIPE
    socketOpens,    \* sockets created by socketServer
    socketCloses,   \* sockets actually closed by socketClose
    closeRequested, \* a handler has run socketClose
    stopWaitCalls,  \* calls of bb_run_stopwaiting
    powerCalls,     \* calls main() made to the power controller
    pidReleases,    \* pidfile handles actually released by pidfile_remove
    stepCount,      \* executions of each shutdown step
    loopState,      \* "before", "running", "returned"
    served,         \* a tick has processed client connections
    termInLoop,     \* SIGTERM delivered while the loop was running
    intQuitInLoop,  \* SIGINT/SIGQUIT signals delivered since the loop started
    logBroken,      \* the consumer of the log is gone: a log write raises SIGPIPE
    pendingPipe,    \* a SIGPIPE raised by a handler's log write awaits its handler
    nRaised,        \* SIGPIPE signals raised by log writes and handled
    stopAtLoopExit  \* stopWaitCalls when the loop returned, -1 before

progVars == <<runmode, bb_socket, handlers, sigpipes, dowait, config, pfh,
              x_err_fd, logOpen, dbusUp>>
envVars  == <<cardOn, sockPath, unlinkResult, pidWritten, exitCode, parentExit,
              failCause>>
sigVars  == <<nSig, nPipe, nTerm, pipeLogs, closeRequested, stopWaitCalls,
              termInLoop, intQuitInLoop, logBroken, pendingPipe, nRaised>>
obsVars  == <<socketOpens, socketCloses, powerCalls, pidReleases, stepCount,
              loopState, served, stopAtLoopExit>>

vars == <<pc, progVars, envVars, sigVars, obsVars>>

NoConfig == [pid_file |-> FALSE, gid_name |-> FALSE, card_shutdown_state |-> 0]

Configs == [pid_file : BOOLEAN, gid_name : BOOLEAN, card_shutdown_state : {0, 1}]

(***************************************************************************)
(* State after init_early_config, bbconfig_parse_opts(PARSE_STAGE_LOG) and *)
(* bb_init_log (lines 236-238): run mode BB_RUN_SERVER, no socket, no      *)
(* diagnostic descriptor, the log open.  The GPU may be in either power    *)
(* state when the daemon starts, and the consumer of the log may be gone.  *)
(***************************************************************************)
Started(broken) ==
    /\ pc = "signal"
    /\ runmode = "BB_RUN_SERVER"
    /\ bb_socket = "closed"
    /\ handlers = {}
    /\ sigpipes = 0
    /\ dowait = TRUE
    /\ config = NoConfig
    /\ pfh = "NULL"
    /\ x_err_fd = "closed"
    /\ logOpen = TRUE
    /\ dbusUp = FALSE
    /\ cardOn \in BOOLEAN
    /\ sockPath = FALSE
    /\ unlinkResult = "none"
    /\ pidWritten = FALSE
    /\ exitCode = -1
    /\ parentExit = -1
    /\ failCause = "none"
    /\ nSig = 0
    /\ nPipe = 0
    /\ nTerm = 0
    /\ pipeLogs = 0
    /\ socketOpens = 0
    /\ socketCloses = 0
    /\ closeRequested = FALSE
    /\ stopWaitCalls = 0
    /\ powerCalls = <<>>
    /\ pidReleases = 0
    /\ stepCount = [s \in StepNames |-> 0]
    /\ loopState = "before"
    /\ served = FALSE
    /\ termInLoop = FALSE
    /\ intQuitInLoop = 0
    /\ stopAtLoopExit = -1
    /\ logBroken = broken
    /\ pendingPipe = FALSE
    /\ nRaised = 0

\* the daemon starts with a working log
Init == Started(FALSE)

\* the daemon starts with a log nobody reads
InitBroken == Started(TRUE)

(***************************************************************************)
(* Collaborators of main() and handle_signal().                            *)
(***************************************************************************)

\* socketClose(&sock): closes the handle if it is open and leaves it invalid
\* either way; the result is <<handle, sockets actually closed>>.
socketClose(sock) ==
    IF sock = "open" THEN <<"closed", 1>> ELSE <<"closed", 0>>

\* pidfile_remove(pfh): releases a held pidfile; a NULL handle is refused.
\* The result is <<handle, pidfiles actually released>>.
pidfile_remove(h) ==
    IF h = "held" THEN <<"released", 1>> ELSE <<h, 0>>

\* One call of main() to the power controller: start_secondary (powerOn) or
\* stop_secondary (powerOff).  The call can fail, leaving the card as it was.
PowerCall(by, op) ==
    \E ok \in BOOLEAN :
        /\ cardOn' = IF ok THEN (op = "powerOn") ELSE cardOn
        /\ powerCalls' = Append(powerCalls, [by |-> by, op |-> op, ok |-> ok])

\* return / exit(code) of the daemon process
Exit(code) ==
    /\ pc' = "exited"
    /\ exitCode' = code

(***************************************************************************)
(* Startup pipeline of main(), lines 243-326.                              *)
(***************************************************************************)

\* signal(SIGHUP..SIGPIPE, handle_signal)
InstallHandlers ==
    /\ pc = "signal"
    /\ handlers' = Signals
    /\ pc' = "init_config"
    /\ UNCHANGED <<runmode, bb_socket, sigpipes, dowait, config, pfh,
                   x_err_fd, logOpen, dbusUp>>
    /\ UNCHANGED <<envVars, sigVars, obsVars>>

\* init_config; bbconfig_parse_opts(PARSE_STAGE_PRECONF)
LoadConfig ==
    /\ pc = "init_config"
    /\ pc' = "find_discrete"
    /\ UNCHANGED <<progVars, envVars, sigVars, obsVars>>

\* A fatal startup condition met with "return (EXIT_FAILURE)" from main().
ReturnFailure(cause) ==
    /\ failCause' = cause
    /\ Exit(EXIT_FAILURE)
    /\ UNCHANGED <<cardOn, sockPath, unlinkResult, pidWritten, parentExit>>
    /\ UNCHANGED <<progVars, sigVars, obsVars>>

\* pci_find_gfx_by_vendor(PCI_VENDOR_ID_NVIDIA); the mutant goes on without
\* the card.
FindDiscrete_NoCheck ==
    /\ pc = "find_discrete"
    /\ \E found \in BOOLEAN :
          /\ failCause' = IF found THEN failCause ELSE "no_discrete"
          /\ pc' = "find_igd"
    /\ UNCHANGED <<cardOn, sockPath, unlinkResult, pidWritten, exitCode, parentExit>>
    /\ UNCHANGED <<progVars, sigVars, obsVars>>

FindDiscrete ==
    /\ pc = "find_discrete"
    /\ \E found \in BOOLEAN :
          IF ~found
          THEN ReturnFailure("no_discrete")
          ELSE /\ pc' = "find_igd"
               /\ UNCHANGED <<progVars, envVars, sigVars, obsVars>>

\* pci_find_gfx_by_vendor(PCI_VENDOR_ID_INTEL)
FindIgd ==
    /\ pc = "find_igd"
    /\ \E found \in BOOLEAN :
          IF ~found
          THEN ReturnFailure("no_igd")
          ELSE /\ pc' = "driver"
               /\ UNCHANGED <<progVars, envVars, sigVars, obsVars>>

\* bbconfig_parse_conf .. check_pm_method: the configuration main() reads
\* later is final here; option 'D' selects BB_RUN_DAEMON.
ResolveDriver ==
    /\ pc = "driver"
    /\ config' \in Configs
    /\ runmode' \in {"BB_RUN_SERVER", "BB_RUN_DAEMON"}
    /\ pc' = "validate"
    /\ UNCHANGED <<bb_socket, handlers, sigpipes, dowait, pfh, x_err_fd,
                   logOpen, dbusUp>>
    /\ UNCHANGED <<envVars, sigVars, obsVars>>

\* config_dump; config_validate
ValidateConfig ==
    /\ pc = "validate"
    /\ \E valid \in BOOLEAN :
          IF ~valid
          THEN ReturnFailure("config_invalid")
          ELSE /\ pc' = "pidfile_open"
               /\ UNCHANGED <<progVars, envVars, sigVars, obsVars>>

\* A fatal startup condition met with bb_closelog, an optional
\* pidfile_remove(pfh) and exit(code).
ExitFailure(cause, removePid) ==
    /\ failCause' = cause
    /\ logOpen' = FALSE
    /\ pfh' = IF removePid THEN pidfile_remove(pfh)[1] ELSE pfh
    /\ pidReleases' = pidReleases + (IF removePid THEN pidfile_remove(pfh)[2] ELSE 0)
    /\ Exit(EXIT_FAILURE)
    /\ UNCHANGED <<runmode, bb_socket, handlers, sigpipes, dowait, config,
                   x_err_fd, dbusUp>>
    /\ UNCHANGED <<cardOn, sockPath, unlinkResult, pidWritten, parentExit>>
    /\ UNCHANGED <<socketOpens, socketCloses, powerCalls, stepCount,
                   loopState, served, stopAtLoopExit>>
    /\ UNCHANGED sigVars

\* pidfile_open: "ok", "EEXIST" (another instance holds the lock) or another
\* error.  The mutant logs a failed open and goes on without the pidfile.
PidfileOpen_IgnoreLock ==
    /\ pc = "pidfile_open"
    /\ IF config.pid_file
       THEN \E r \in {"ok", "EEXIST", "error"} :
               /\ pfh' = IF r = "ok" THEN "held" ELSE "NULL"
               /\ failCause' = CASE r = "ok" -> failCause
                                 [] r = "EEXIST" -> "already_running"
                                 [] r = "error" -> "pidfile_error"
       ELSE UNCHANGED <<pfh, failCause>>
    /\ pc' = "chgid"
    /\ UNCHANGED <<runmode, bb_socket, handlers, sigpipes, dowait, config,
                   x_err_fd, logOpen, dbusUp>>
    /\ UNCHANGED <<cardOn, sockPath, unlinkResult, pidWritten, exitCode, parentExit>>
    /\ UNCHANGED <<sigVars, obsVars>>

\* The mutant cleans up a failed open with pidfile_remove on the file the
\* other instance holds.
PidfileOpen_RemovesOnFail ==
    /\ pc = "pidfile_open"
    /\ IF config.pid_file
       THEN \E r \in {"ok", "EEXIST", "error"} :
               IF r = "ok"
               THEN /\ pfh' = "held"
                    /\ pc' = "chgid"
                    /\ UNCHANGED <<runmode, bb_socket, handlers, sigpipes,
                                   dowait, config, x_err_fd, logOpen, dbusUp>>
                    /\ UNCHANGED <<envVars, sigVars, obsVars>>
               ELSE /\ failCause' = IF r = "EEXIST" THEN "already_running"
                                                    ELSE "pidfile_error"
                    /\ logOpen' = FALSE
                    /\ pfh' = "released"
                    /\ pidReleases' = pidReleases + 1
                    /\ Exit(EXIT_FAILURE)
                    /\ UNCHANGED <<runmode, bb_socket, handlers, sigpipes,
                                   dowait, config, x_err_fd, dbusUp>>
                    /\ UNCHANGED <<cardOn, sockPath, unlinkResult, pidWritten,
                                   parentExit>>
                    /\ UNCHANGED <<socketOpens, socketCloses, powerCalls,
                                   stepCount, loopState, served, stopAtLoopExit>>
                    /\ UNCHANGED sigVars
       ELSE /\ pc' = "chgid"
            /\ UNCHANGED <<progVars, envVars, sigVars, obsVars>>

PidfileOpen ==
    /\ pc = "pidfile_open"
    /\ IF config.pid_file
       THEN \E r \in {"ok", "EEXIST", "error"} :
               CASE r = "ok" ->
                    /\ pfh' = "held"
                    /\ pc' = "chgid"
                    /\ UNCHANGED <<runmode, bb_socket, handlers, sigpipes,
                                   dowait, config, x_err_fd, logOpen, dbusUp>>
                    /\ UNCHANGED <<envVars, sigVars, obsVars>>
                 [] r = "EEXIST" -> ExitFailure("already_running", FALSE)
                 [] r = "error"  -> ExitFailure("pidfile_error", FALSE)
       ELSE /\ pc' = "chgid"
            /\ UNCHANGED <<progVars, envVars, sigVars, obsVars>>

\* bb_chgid: getgrnam, setgid, umask.  The mutant exits on a failure without
\* pidfile_remove.
ChangeGid_LeaksPidfile ==
    /\ pc = "chgid"
    /\ IF config.gid_name
       THEN \E r \in {"ok", "no_group", "setgid"} :
               IF r = "ok"
               THEN /\ pc' = "banner"
                    /\ UNCHANGED <<progVars, envVars, sigVars, obsVars>>
               ELSE ExitFailure(r, FALSE)
       ELSE /\ pc' = "banner"
            /\ UNCHANGED <<progVars, envVars, sigVars, obsVars>>

ChangeGid ==
    /\ pc = "chgid"
    /\ IF config.gid_name
       THEN \E r \in {"ok", "no_group", "setgid"} :
               IF r = "ok"
               THEN /\ pc' = "banner"
                    /\ UNCHANGED <<progVars, envVars, sigVars, obsVars>>
               ELSE ExitFailure(r, TRUE)
       ELSE /\ pc' = "banner"
            /\ UNCHANGED <<progVars, envVars, sigVars, obsVars>>

\* bb_log(LOG_NOTICE, "%s %s started\n"); the daemon flag selects daemonize.
\* The mutant never daemonizes.
Banner_SkipsDaemonize ==
    /\ pc = "banner"
    /\ pc' = "pidfile_write"
    /\ UNCHANGED <<progVars, envVars, sigVars, obsVars>>

Banner ==
    /\ pc = "banner"
    /\ pc' = IF runmode = "BB_RUN_DAEMON" THEN "fork" ELSE "pidfile_write"
    /\ UNCHANGED <<progVars, envVars, sigVars, obsVars>>

\* daemonize: fork; the parent exits with success, the child continues
DaemonFork ==
    /\ pc = "fork"
    /\ \E forked \in BOOLEAN :
          IF ~forked
          THEN ExitFailure("fork", TRUE)
          ELSE /\ parentExit' = EXIT_SUCCESS
               /\ pc' = "setsid"
               /\ UNCHANGED <<cardOn, sockPath, unlinkResult, pidWritten, exitCode, failCause>>
               /\ UNCHANGED <<progVars, sigVars, obsVars>>

\* One of the later steps of daemonize: setsid, chdir, open("/dev/null").
\* The mutant logs the failure and goes on.
DaemonStep_NoCheck(at, next) ==
    /\ pc = at
    /\ \E ok \in BOOLEAN :
          /\ failCause' = IF ok THEN failCause ELSE at
          /\ pc' = next
    /\ UNCHANGED <<cardOn, sockPath, unlinkResult, pidWritten, exitCode, parentExit>>
    /\ UNCHANGED <<progVars, sigVars, obsVars>>

DaemonStep(at, next) ==
    /\ pc = at
    /\ \E ok \in BOOLEAN :
          IF ~ok
          THEN ExitFailure(at, TRUE)
          ELSE /\ pc' = next
               /\ UNCHANGED <<progVars, envVars, sigVars, obsVars>>

DaemonSetsid == DaemonStep("setsid", "chdir")

DaemonChdir == DaemonStep("chdir", "devnull")

DaemonDevnull == DaemonStep("devnull", "pidfile_write")

\* pidfile_write(pfh)
PidfileWrite ==
    /\ pc = "pidfile_write"
    /\ pidWritten' = (pfh = "held")
    /\ pc' = "dbus_init"
    /\ UNCHANGED <<cardOn, sockPath, unlinkResult, exitCode, parentExit, failCause>>
    /\ UNCHANGED <<progVars, sigVars, obsVars>>

(***************************************************************************)
(* Service initialisation and event loop of main(), lines 328-338.         *)
(***************************************************************************)

\* bb_dbus_init
DbusInit ==
    /\ pc = "dbus_init"
    /\ dbusUp' = TRUE
    /\ pc' = "socket"
    /\ UNCHANGED <<runmode, bb_socket, handlers, sigpipes, dowait, config,
                   pfh, x_err_fd, logOpen>>
    /\ UNCHANGED <<envVars, sigVars, obsVars>>

\* bb_status.bb_socket = socketServer(bb_config.socket_path, SOCK_NOBLOCK)
SocketServer ==
    /\ pc = "socket"
    /\ bb_socket' = "open"
    /\ socketOpens' = socketOpens + 1
    /\ sockPath' = TRUE
    /\ UNCHANGED unlinkResult
    /\ pc' = "stop_secondary"
    /\ UNCHANGED <<runmode, handlers, sigpipes, dowait, config, pfh,
                   x_err_fd, logOpen, dbusUp>>
    /\ UNCHANGED <<cardOn, pidWritten, exitCode, parentExit, failCause>>
    /\ UNCHANGED <<socketCloses, powerCalls, pidReleases, stepCount,
                   loopState, served, stopAtLoopExit>>
    /\ UNCHANGED sigVars

\* stop_secondary(): turn off card, nobody is connected right now.
\* The mutant enters the loop without switching the card off.
InitialStop_Skipped ==
    /\ pc = "stop_secondary"
    /\ pc' = "loop_new"
    /\ UNCHANGED <<progVars, envVars, sigVars, obsVars>>

InitialStop ==
    /\ pc = "stop_secondary"
    /\ PowerCall("init", "powerOff")
    /\ pc' = "loop_new"
    /\ UNCHANGED <<sockPath, unlinkResult, pidWritten, exitCode, parentExit, failCause>>
    /\ UNCHANGED <<socketOpens, socketCloses, pidReleases, stepCount,
                   loopState, served, stopAtLoopExit>>
    /\ UNCHANGED <<progVars, sigVars>>

\* g_main_loop_new; g_timeout_add(100, handle_connection, main_loop);
\* g_main_loop_run starts
LoopStart ==
    /\ pc = "loop_new"
    /\ loopState' = "running"
    /\ pc' = "loop"
    /\ UNCHANGED <<socketOpens, socketCloses, powerCalls, pidReleases,
                   stepCount, served, stopAtLoopExit>>
    /\ UNCHANGED <<progVars, envVars, sigVars>>

\* One 100ms tick of g_main_loop_run: handle_connection quits the loop when
\* the control socket is closed and serves the pending clients otherwise.
\* Serving a client can switch the card and can leave the diagnostic
\* descriptor of a started X server open.
Tick ==
    /\ pc = "loop"
    /\ IF bb_socket = "closed"
       THEN /\ loopState' = "returned"
            /\ stopAtLoopExit' = stopWaitCalls
            /\ pc' = "connections_fini"
            /\ UNCHANGED <<cardOn, x_err_fd, served>>
       ELSE /\ served' = TRUE
            /\ cardOn' \in BOOLEAN
            /\ x_err_fd' \in {x_err_fd, "open"}
            /\ UNCHANGED <<pc, loopState, stopAtLoopExit>>
    /\ UNCHANGED <<runmode, bb_socket, handlers, sigpipes, dowait, config,
                   pfh, logOpen, dbusUp>>
    /\ UNCHANGED <<sockPath, unlinkResult, pidWritten, exitCode, parentExit, failCause>>
    /\ UNCHANGED <<socketOpens, socketCloses, powerCalls, pidReleases,
                   stepCount>>
    /\ UNCHANGED sigVars

(***************************************************************************)
(* Shutdown sequence of main(), lines 340-361.                             *)
(***************************************************************************)

\* a shutdown step at pc = step is executed and control moves to next
StepDone(step, next) ==
    /\ pc = step
    /\ stepCount' = [stepCount EXCEPT ![step] = @ + 1]
    /\ pc' = next

\* connections_fini; the mutant goes on past the unlink
ConnectionsFini_SkipsUnlink ==
    /\ StepDone("connections_fini", "set_exit")
    /\ UNCHANGED <<socketOpens, socketCloses, powerCalls, pidReleases,
                   loopState, served, stopAtLoopExit>>
    /\ UNCHANGED <<progVars, envVars, sigVars>>

ConnectionsFini ==
    /\ StepDone("connections_fini", "unlink")
    /\ UNCHANGED <<socketOpens, socketCloses, powerCalls, pidReleases,
                   loopState, served, stopAtLoopExit>>
    /\ UNCHANGED <<progVars, envVars, sigVars>>

\* unlink(bb_config.socket_path); the result is not looked at.  The first
\* mutant unlinks another path, the second gives up the shutdown when the
\* unlink fails.
Unlink_WrongPath ==
    /\ StepDone("unlink", "set_exit")
    /\ \E ok \in BOOLEAN : unlinkResult' = IF ok THEN "ok" ELSE "failed"
    /\ UNCHANGED sockPath
    /\ UNCHANGED <<cardOn, pidWritten, exitCode, parentExit, failCause>>
    /\ UNCHANGED <<socketOpens, socketCloses, powerCalls, pidReleases,
                   loopState, served, stopAtLoopExit>>
    /\ UNCHANGED <<progVars, sigVars>>

Unlink_AbortsOnFailure ==
    /\ pc = "unlink"
    /\ stepCount' = [stepCount EXCEPT !["unlink"] = @ + 1]
    /\ \E ok \in BOOLEAN :
          /\ sockPath' = IF ok THEN FALSE ELSE sockPath
          /\ unlinkResult' = IF ok THEN "ok" ELSE "failed"
          /\ IF ok
             THEN pc' = "set_exit" /\ UNCHANGED exitCode
             ELSE Exit(EXIT_FAILURE)
    /\ UNCHANGED <<cardOn, pidWritten, parentExit, failCause>>
    /\ UNCHANGED <<socketOpens, socketCloses, powerCalls, pidReleases,
                   loopState, served, stopAtLoopExit>>
    /\ UNCHANGED <<progVars, sigVars>>

Unlink ==
    /\ StepDone("unlink", "set_exit")
    /\ \E ok \in BOOLEAN :
          /\ sockPath' = IF ok THEN FALSE ELSE sockPath
          /\ unlinkResult' = IF ok THEN "ok" ELSE "failed"
    /\ UNCHANGED <<cardOn, pidWritten, exitCode, parentExit, failCause>>
    /\ UNCHANGED <<socketOpens, socketCloses, powerCalls, pidReleases,
                   loopState, served, stopAtLoopExit>>
    /\ UNCHANGED <<progVars, sigVars>>

\* bb_status.runmode = BB_RUN_EXIT
SetExit ==
    /\ StepDone("set_exit", "power")
    /\ runmode' = "BB_RUN_EXIT"
    /\ UNCHANGED <<bb_socket, handlers, sigpipes, dowait, config, pfh,
                   x_err_fd, logOpen, dbusUp>>
    /\ UNCHANGED <<socketOpens, socketCloses, powerCalls, pidReleases,
                   loopState, served, stopAtLoopExit>>
    /\ UNCHANGED <<envVars, sigVars>>

\* if (bb_config.card_shutdown_state) start_secondary else stop_secondary
FinalPowerOp_Inverted(card_shutdown_state) ==
    IF card_shutdown_state # 0 THEN "powerOff" ELSE "powerOn"

FinalPowerOp(card_shutdown_state) ==
    IF card_shutdown_state # 0 THEN "powerOn" ELSE "powerOff"

FinalPower ==
    /\ StepDone("power", "dbus_fini")
    /\ PowerCall("final", FinalPowerOp(config.card_shutdown_state))
    /\ UNCHANGED <<sockPath, unlinkResult, pidWritten, exitCode, parentExit, failCause>>
    /\ UNCHANGED <<socketOpens, socketCloses, pidReleases, loopState,
                   served, stopAtLoopExit>>
    /\ UNCHANGED <<progVars, sigVars>>

\* bb_dbus_fini
DbusFini ==
    /\ StepDone("dbus_fini", "closelog")
    /\ dbusUp' = FALSE
    /\ UNCHANGED <<runmode, bb_socket, handlers, sigpipes, dowait, config,
                   pfh, x_err_fd, logOpen>>
    /\ UNCHANGED <<socketOpens, socketCloses, powerCalls, pidReleases,
                   loopState, served, stopAtLoopExit>>
    /\ UNCHANGED <<envVars, sigVars>>

\* bb_closelog
CloseLog ==
    /\ StepDone("closelog", "pidfile_remove")
    /\ logOpen' = FALSE
    /\ UNCHANGED <<runmode, bb_socket, handlers, sigpipes, dowait, config,
                   pfh, x_err_fd, dbusUp>>
    /\ UNCHANGED <<socketOpens, socketCloses, powerCalls, pidReleases,
                   loopState, served, stopAtLoopExit>>
    /\ UNCHANGED <<envVars, sigVars>>

\* pidfile_remove(pfh); the mutant leaves the pidfile behind
PidfileRemove_Skip ==
    /\ StepDone("pidfile_remove", "stop_all")
    /\ UNCHANGED <<socketOpens, socketCloses, powerCalls, pidReleases,
                   loopState, served, stopAtLoopExit>>
    /\ UNCHANGED <<progVars, envVars, sigVars>>

PidfileRemove ==
    /\ StepDone("pidfile_remove", "stop_all")
    /\ pfh' = pidfile_remove(pfh)[1]
    /\ pidReleases' = pidReleases + pidfile_remove(pfh)[2]
    /\ UNCHANGED <<runmode, bb_socket, handlers, sigpipes, dowait, config,
                   x_err_fd, logOpen, dbusUp>>
    /\ UNCHANGED <<socketOpens, socketCloses, powerCalls, loopState, served,
                   stopAtLoopExit>>
    /\ UNCHANGED <<envVars, sigVars>>

\* bb_stop_all; the mutant waits for the supervised processes unless told
\* to stop waiting
StopAll_WaitsForChildren ==
    /\ ~dowait
    /\ StepDone("stop_all", "close_xerr")
    /\ UNCHANGED <<socketOpens, socketCloses, powerCalls, pidReleases,
                   loopState, served, stopAtLoopExit>>
    /\ UNCHANGED <<progVars, envVars, sigVars>>

StopAll ==
    /\ StepDone("stop_all", "close_xerr")
    /\ UNCHANGED <<socketOpens, socketCloses, powerCalls, pidReleases,
                   loopState, served, stopAtLoopExit>>
    /\ UNCHANGED <<progVars, envVars, sigVars>>

\* if (bb_status.x_err_fd != -1) close it; return (EXIT_SUCCESS)
CloseXErr ==
    /\ pc = "close_xerr"
    /\ stepCount' = [stepCount EXCEPT !["close_xerr"] = @ + 1]
    /\ x_err_fd' = "closed"
    /\ Exit(EXIT_SUCCESS)
    /\ UNCHANGED <<runmode, bb_socket, handlers, sigpipes, dowait, config,
                   pfh, logOpen, dbusUp>>
    /\ UNCHANGED <<cardOn, sockPath, unlinkResult, pidWritten, parentExit, failCause>>
    /\ UNCHANGED <<socketOpens, socketCloses, powerCalls, pidReleases,
                   loopState, served, stopAtLoopExit>>
    /\ UNCHANGED sigVars

(***************************************************************************)
(* handle_signal, lines 124-153.                                           *)
(***************************************************************************)

\* case SIGPIPE: if (sigpipes <= 10) the signal is logged and counted.
\* The mutant logs every SIGPIPE.
SigpipeLogged_Always(n) == TRUE

SigpipeLogged(n) == n <= SIGPIPE_LIMIT

\* the handler run for sig writes a log line: every case but a SIGPIPE past
\* the limit calls bb_log
HandlerLogs(sig, n) == sig # "SIGPIPE" \/ SigpipeLogged(n)

\* the cases that call socketClose(&bb_status.bb_socket)
SigClosesSocket_TermOnly(sig) == sig = "SIGTERM"

SigClosesSocket(sig) == sig \in {"SIGINT", "SIGQUIT", "SIGTERM"}

\* the case that calls bb_run_stopwaiting()
SigStopsWaiting_AlsoHup(sig) == sig \in {"SIGTERM", "SIGHUP"}

SigStopsWaiting_Never(sig) == FALSE

SigStopsWaiting(sig) == sig = "SIGTERM"

\* what the run records about a delivered signal
Delivered(sig) ==
    /\ nSig' = IF sig = "SIGPIPE" THEN nSig ELSE nSig + 1
    /\ nPipe' = IF sig = "SIGPIPE" THEN nPipe + 1 ELSE nPipe
    /\ nTerm' = IF sig = "SIGTERM" THEN nTerm + 1 ELSE nTerm
    /\ termInLoop' = (termInLoop \/ (sig = "SIGTERM" /\ loopState = "running"))
    /\ intQuitInLoop' =
          IF sig \in {"SIGINT", "SIGQUIT"} /\ loopState # "before"
          THEN intQuitInLoop + 1 ELSE intQuitInLoop
    /\ nRaised' = IF pendingPipe THEN nRaised + 1 ELSE nRaised
    /\ logBroken' = logBroken
    /\ pendingPipe' = (logBroken /\ HandlerLogs(sig, sigpipes))

\* a signal is handled by handle_signal while the process lives and the
\* handler is installed for it
Deliverable(sig) ==
    /\ pc # "exited"
    /\ sig \in handlers

\* The mutant requests the shutdown by flagging the run mode and leaves the
\* socket alone.
handle_signal_FlagsExit(sig) ==
    /\ Deliverable(sig)
    /\ Delivered(sig)
    /\ IF sig = "SIGPIPE" /\ SigpipeLogged(sigpipes)
       THEN /\ sigpipes' = sigpipes + 1
            /\ pipeLogs' = pipeLogs + 1
       ELSE UNCHANGED <<sigpipes, pipeLogs>>
    /\ runmode' = IF SigClosesSocket(sig) THEN "BB_RUN_EXIT" ELSE runmode
    /\ closeRequested' = (closeRequested \/ SigClosesSocket(sig))
    /\ IF SigStopsWaiting(sig)
       THEN /\ dowait' = FALSE
            /\ stopWaitCalls' = stopWaitCalls + 1
       ELSE UNCHANGED <<dowait, stopWaitCalls>>
    /\ UNCHANGED <<pc, bb_socket, handlers, config, pfh, x_err_fd, logOpen,
                   dbusUp>>
    /\ UNCHANGED <<socketOpens, socketCloses, powerCalls, pidReleases,
                   stepCount, loopState, served, stopAtLoopExit>>
    /\ UNCHANGED envVars

handle_signal(sig) ==
    /\ Deliverable(sig)
    /\ Delivered(sig)
    /\ IF sig = "SIGPIPE" /\ SigpipeLogged(sigpipes)
       THEN /\ sigpipes' = sigpipes + 1
            /\ pipeLogs' = pipeLogs + 1
       ELSE UNCHANGED <<sigpipes, pipeLogs>>
    /\ IF SigClosesSocket(sig)
       THEN /\ bb_socket' = socketClose(bb_socket)[1]
            /\ socketCloses' = socketCloses + socketClose(bb_socket)[2]
            /\ closeRequested' = TRUE
       ELSE UNCHANGED <<bb_socket, socketCloses, closeRequested>>
    /\ IF SigStopsWaiting(sig)
       THEN /\ dowait' = FALSE
            /\ stopWaitCalls' = stopWaitCalls + 1
       ELSE UNCHANGED <<dowait, stopWaitCalls>>
    /\ UNCHANGED <<pc, runmode, handlers, config, pfh, x_err_fd, logOpen,
                   dbusUp>>
    /\ UNCHANGED <<socketOpens, powerCalls, pidReleases, stepCount,
                   loopState, served, stopAtLoopExit>>
    /\ UNCHANGED envVars

(***************************************************************************)
(* The daemon: main() interleaved with signal deliveries.                  *)
(***************************************************************************)

\* any signals, MaxSignals of them
Signal ==
    \E sig \in Signals :
        /\ nSig + nPipe < MaxSignals
        /\ handle_signal(sig)

\* a storm of SIGPIPE signals around a few other signals
PipeStorm ==
    \E sig \in Signals :
        /\ IF sig = "SIGPIPE" THEN nPipe < MaxPipes ELSE nSig < MaxOthers
        /\ handle_signal(sig)

Startup ==
    \/ InstallHandlers
    \/ LoadConfig
    \/ FindDiscrete
    \/ FindIgd
    \/ ResolveDriver
    \/ ValidateConfig
    \/ PidfileOpen
    \/ ChangeGid
    \/ Banner
    \/ DaemonFork
    \/ DaemonSetsid
    \/ DaemonChdir
    \/ DaemonDevnull
    \/ PidfileWrite

Service ==
    \/ DbusInit
    \/ SocketServer
    \/ InitialStop
    \/ LoopStart
    \/ Tick

Shutdown ==
    \/ ConnectionsFini
    \/ Unlink
    \/ SetExit
    \/ FinalPower
    \/ DbusFini
    \/ CloseLog
    \/ PidfileRemove
    \/ StopAll
    \/ CloseXErr

Next ==
    \/ Startup
    \/ Service
    \/ Shutdown
    \/ Signal

Spec == Init /\ [][Next]_vars

NextPipe ==
    \/ Startup
    \/ Service
    \/ Shutdown
    \/ PipeStorm

SpecPipe == Init /\ [][NextPipe]_vars

\* main() is a running process: it takes its next step, and the 100ms timer
\* of the event loop keeps firing.
MainStep ==
    \/ Startup
    \/ Service
    \/ Shutdown

\* any signals, MaxLiveSignals of them
SignalLive ==
    \E sig \in Signals :
        /\ nSig + nPipe < MaxLiveSignals
        /\ handle_signal(sig)

NextLive ==
    \/ Startup
    \/ Service
    \/ Shutdown
    \/ SignalLive

SpecLive == Init /\ [][NextLive]_vars /\ WF_vars(MainStep)

\* main() goes on once the signal raised by a log write has been handled
MainWhenQuiet ==
    /\ ~pendingPipe
    /\ MainStep

\* a signal sent to the daemon, MaxBrokenSignals of them
BrokenSignal ==
    \E sig \in Signals :
        /\ ~pendingPipe
        /\ nSig + nPipe - nRaised < MaxBrokenSignals
        /\ handle_signal(sig)

\* the SIGPIPE raised by the log write of the last handler run
RaisedPipe ==
    /\ pendingPipe
    /\ nRaised < MaxRaised
    /\ handle_signal("SIGPIPE")

NextBroken ==
    \/ MainWhenQuiet
    \/ BrokenSignal
    \/ RaisedPipe

\* The log consumer is gone.  A raised signal is delivered.
SpecBroken == InitBroken /\ [][NextBroken]_vars /\ WF_vars(RaisedPipe)


(***************************************************************************)
(* Properties.                                                             *)
(***************************************************************************)

\* the calls of the shutdown sequence to the power controller
FinalCalls == SelectSeq(powerCalls, LAMBDA c : c.by = "final")

\* the powerOff calls of main() over the whole run
PowerOffCalls == SelectSeq(powerCalls, LAMBDA c : c.op = "powerOff")

\* the card state the configured shutdown policy asks for
PolicyOn == config.card_shutdown_state # 0

CleanExit == pc = "exited" /\ exitCode = EXIT_SUCCESS

\* C1: once the event loop has started, SIGINT or SIGQUIT delivered any
\* number of times closes the control socket exactly once; no shutdown step
\* runs before that closure or more than once, and when the process has
\* exited each of the nine shutdown steps has run exactly once.
C1_IntQuitClosesOnceThenNineSteps ==
    /\ socketCloses <= 1
    /\ intQuitInLoop >= 1 => (socketCloses = 1 /\ bb_socket = "closed")
    /\ \A s \in StepNames :
          /\ stepCount[s] <= 1
          /\ stepCount[s] = 1 => socketCloses = 1
    /\ (pc = "exited" /\ intQuitInLoop >= 1) =>
          \A s \in StepNames : stepCount[s] = 1

\* C1 witness: a daemon that got SIGINT/SIGQUIT at least twice after the
\* loop started, no SIGTERM, and has run its whole shutdown sequence.
C1_Witness ==
    /\ pc = "exited"
    /\ intQuitInLoop >= 2
    /\ nTerm = 0
    /\ socketCloses = 1
    /\ \A s \in StepNames : stepCount[s] = 1

C3_MissingGpuAborts ==
    failCause \in {"no_discrete", "no_igd"} =>
        /\ pc = "exited"
        /\ exitCode # EXIT_SUCCESS
        /\ socketOpens = 0
        /\ bb_socket = "closed"
        /\ powerCalls = <<>>

\* C3 witness: the integrated GPU is missing and the process has exited,
\* signals having been delivered during the startup.
C3_Witness ==
    /\ failCause = "no_igd"
    /\ pc = "exited"
    /\ nSig >= 1

\* C4: a startup with a pidfile configured whose lock another instance holds
\* exits non-zero as "already running", has made no call to the power
\* controller and has opened no control socket.
C4_AlreadyRunningAborts ==
    failCause = "already_running" =>
        /\ config.pid_file
        /\ pc = "exited"
        /\ exitCode = EXIT_FAILURE
        /\ pfh = "NULL"
        /\ powerCalls = <<>>
        /\ socketOpens = 0

\* C4 witness: the second instance has exited on the held lock.
C4_Witness ==
    /\ failCause = "already_running"
    /\ pc = "exited"
    /\ config.pid_file

\* C5: a SIGTERM delivered while the event loop runs has called
\* bb_run_stopwaiting before the loop returns; a run without SIGTERM never
\* calls it.
C5_TermStopsWaitingBeforeLoopExit ==
    /\ termInLoop => (stopWaitCalls >= 1 /\ ~dowait)
    /\ (termInLoop /\ loopState = "returned") => stopAtLoopExit >= 1
    /\ nTerm = 0 => (stopWaitCalls = 0 /\ dowait)

\* C5 witness: the loop has returned after a single SIGTERM delivered while
\* it ran, and after a SIGINT or SIGQUIT.
C5_Witness ==
    /\ termInLoop
    /\ loopState = "returned"
    /\ nTerm = 1
    /\ intQuitInLoop >= 1
    /\ stopAtLoopExit = 1

\* C6: the handler writes at most 10 log lines about SIGPIPE over the life
\* of the process, the counter is never reset, and SIGPIPE alone never
\* closes the socket, changes the run mode or stops the process runner.
C6_AtMostTenPipeLogs ==
    /\ pipeLogs <= 10
    /\ sigpipes = pipeLogs
    /\ nSig = 0 =>
          /\ socketCloses = 0
          /\ ~closeRequested
          /\ stopWaitCalls = 0
          /\ runmode # "BB_RUN_EXIT"

\* C7 as stated: the control socket handle is valid if and only if the run
\* mode is not BB_RUN_EXIT.
C7_SocketValidIffNotExiting ==
    (bb_socket = "open") <=> (runmode # "BB_RUN_EXIT")

\* C7 amended: whenever the control socket handle is valid the run mode is
\* not BB_RUN_EXIT (the run mode is BB_RUN_EXIT only with the handle
\* closed).
C7_ValidSocketImpliesNotExiting ==
    bb_socket = "open" => runmode # "BB_RUN_EXIT"

\* C7 witness: the run mode is BB_RUN_EXIT after a socket was opened and
\* closed.
C7_Witness ==
    /\ runmode = "BB_RUN_EXIT"
    /\ socketOpens = 1
    /\ socketCloses = 1
    /\ bb_socket = "closed"

\* C8: once a handler for SIGINT, SIGQUIT or SIGTERM, delivered at any
\* point after the handlers are installed, has closed the control socket
\* handle, the handle is never valid again and no client is served.
C8_ClosureIrreversible ==
    closeRequested => bb_socket = "closed"

\* C9 as stated: a run that starts normally under the POWER_OFF policy with
\* the pidfile acquired, gets SIGTERM exactly once while the loop runs and
\* exits has closed the socket once, called bb_run_stopwaiting once, forced
\* the GPU off once over the whole run, released the pidfile once and exits
\* with code 0.
TermOnceRun ==
    /\ pc = "exited"
    /\ loopState = "returned"
    /\ ~PolicyOn
    /\ config.pid_file
    /\ nTerm = 1
    /\ termInLoop

C9_TermOnceEndToEnd ==
    TermOnceRun =>
        /\ socketCloses = 1
        /\ stopWaitCalls = 1
        /\ Len(PowerOffCalls) = 1
        /\ pidReleases = 1
        /\ exitCode = EXIT_SUCCESS

\* C9 amended: in such a run the socket is closed once, bb_run_stopwaiting
\* is called once, the shutdown sequence forces the GPU off exactly once
\* (the second powerOff call of the run, after the one of service
\* initialisation, and no powerOn call), the pidfile is released once and
\* the exit code is 0.
C9_TermOnceFinalPowerOff ==
    TermOnceRun =>
        /\ socketCloses = 1
        /\ stopWaitCalls = 1
        /\ Len(FinalCalls) = 1
        /\ FinalCalls[1].op = "powerOff"
        /\ Len(PowerOffCalls) = 2
        /\ Len(powerCalls) = 2
        /\ pidReleases = 1
        /\ pfh = "released"
        /\ exitCode = EXIT_SUCCESS

\* C9 witness: such a run, daemonized, has exited.
C9_Witness ==
    /\ TermOnceRun
    /\ nSig = 1
    /\ parentExit = EXIT_SUCCESS
    /\ exitCode = EXIT_SUCCESS

\* C10: every fatal startup condition ends the daemon process with a
\* non-zero exit code before the event loop starts, without the control
\* socket ever opened and without a call to the power controller; nothing is
\* retried, the process being gone.
FatalCauses ==
    {"no_discrete", "no_igd", "config_invalid", "already_running",
     "pidfile_error", "no_group", "setgid", "fork", "setsid", "chdir",
     "devnull"}

C10_FatalStartupAborts ==
    /\ failCause \in FatalCauses \cup {"none"}
    /\ failCause # "none" =>
          /\ pc = "exited"
          /\ exitCode # EXIT_SUCCESS
          /\ loopState = "before"
          /\ ~served
          /\ socketOpens = 0
          /\ powerCalls = <<>>
    /\ (pc = "exited" /\ loopState = "before") => failCause # "none"

\* C10 witness: the detached child has failed to open the null device after
\* its parent exited with success.
C10_Witness ==
    /\ failCause = "devnull"
    /\ pc = "exited"
    /\ parentExit = EXIT_SUCCESS
    /\ exitCode = EXIT_FAILURE


StepsDoneUpTo(n) ==
    \A i \in 1..Len(ShutdownSteps) :
        stepCount[ShutdownSteps[i]] = (IF i <= n THEN 1 ELSE 0)

\* C12: the shutdown sequence runs only after the event loop has returned
\* and executes its steps in the fixed order connection teardown, socket
\* unlink, run mode EXIT, final power call, bus teardown, log close, pidfile
\* release, terminate all processes, close diagnostic descriptor: at every
\* moment the steps executed are a prefix of that order, each executed once,
\* and each step's effect is there exactly when the step has run.
C12_ShutdownOrder ==
    /\ \E n \in 0..Len(ShutdownSteps) : StepsDoneUpTo(n)
    /\ ~StepsDoneUpTo(0) => loopState = "returned"
    /\ loopState # "returned" => pc \notin StepNames
    /\ (unlinkResult # "none") <=> (stepCount["unlink"] = 1)
    /\ (runmode = "BB_RUN_EXIT") <=> (stepCount["set_exit"] = 1)
    /\ (FinalCalls # <<>>) <=> (stepCount["power"] = 1)
    /\ stepCount["dbus_fini"] = 1 => ~dbusUp
    /\ (~logOpen /\ loopState = "returned") <=> (stepCount["closelog"] = 1)
    /\ (loopState = "returned" /\ pfh = "held") => stepCount["pidfile_remove"] = 0
    /\ pidReleases = 1 /\ loopState = "returned" => stepCount["pidfile_remove"] = 1
    /\ (pc = "exited" /\ loopState = "returned") <=> (stepCount["close_xerr"] = 1)

\* C12 witness: the sequence is half way, the bus service torn down and the
\* log still open.
C12_Witness ==
    /\ pc = "closelog"
    /\ StepsDoneUpTo(5)
    /\ logOpen
    /\ Len(FinalCalls) = 1
    /\ runmode = "BB_RUN_EXIT"


\* the event loop is running on a closed control socket
LoopClosed == loopState = "running" /\ bb_socket = "closed"

\* C13: once a handler has closed the control socket while the event loop
\* runs, no client is served any more, the next step of the loop is its
\* return, and the shutdown sequence eventually runs to completion and the
\* process exits with success.
C13_ClosureEndsLoopAndShutsDown ==
    /\ [][LoopClosed =>
            /\ served' = served
            /\ cardOn' = cardOn
            /\ bb_socket' = "closed"
            /\ (pc' # pc => (pc' = "connections_fini" /\ loopState' = "returned"))]_vars
    /\ LoopClosed ~> (CleanExit /\ StepsDoneUpTo(Len(ShutdownSteps)))

\* C13 witness: a single signal, SIGINT or SIGQUIT delivered while the loop
\* ran, has ended the loop and the daemon has shut down.
C13_Witness ==
    /\ CleanExit
    /\ nSig = 1
    /\ nPipe = 0
    /\ intQuitInLoop = 1
    /\ socketCloses = 1

(***************************************************************************)
(* Startup order.                                                          *)
(***************************************************************************)

\* the positions of main() in its startup pipeline, in source order
StartupStages ==
    <<"signal", "init_config", "find_discrete", "find_igd", "driver",
      "validate", "pidfile_open", "chgid", "banner", "fork", "setsid",
      "chdir", "devnull", "pidfile_write">>

\* index of position p in the pipeline, Len(StartupStages) + 1 past it
Stage(p) ==
    IF \E i \in 1..Len(StartupStages) : StartupStages[i] = p
    THEN CHOOSE i \in 1..Len(StartupStages) : StartupStages[i] = p
    ELSE Len(StartupStages) + 1

\* causes logged by the hardware and configuration checks
ValidationCauses == {"no_discrete", "no_igd", "config_invalid"}

\* C14: the startup stages run in source order: handlers, configuration,
\* discrete GPU, integrated GPU, driver, validation, pidfile lock, group
\* change, banner, daemonize, PID written; main never goes back, skips only
\* daemonize (when the daemon flag is off), and each stage's effect is
\* absent before its stage: no lock before validation passed, no detached
\* parent before the banner, no PID written before detachment, no service
\* before the PID is written.
C14_StartupOrder ==
    /\ [][(pc' # pc /\ Stage(pc) <= Len(StartupStages)) =>
            \/ pc' = "exited"
            \/ /\ pc # "pidfile_write"
               /\ Stage(pc') = Stage(pc) + 1
            \/ /\ pc = "banner"
               /\ runmode # "BB_RUN_DAEMON"
               /\ pc' = "pidfile_write"
            \/ /\ pc = "pidfile_write"
               /\ pc' = "dbus_init"]_vars
    /\ [](pc = "signal" => logOpen)
    /\ [](handlers = {} <=> pc = "signal")
    /\ [](Stage(pc) <= Stage("driver") =>
            (config = NoConfig /\ runmode = "BB_RUN_SERVER"))
    /\ [](Stage(pc) <= Stage("pidfile_open") => pfh = "NULL")
    /\ [](pfh # "NULL" => failCause \notin ValidationCauses)
    /\ [](Stage(pc) <= Stage("fork") => parentExit = -1)
    /\ [](parentExit = EXIT_SUCCESS =>
            /\ runmode # "BB_RUN_SERVER"
            /\ failCause \in {"none", "setsid", "chdir", "devnull"})
    /\ [](Stage(pc) <= Stage("pidfile_write") =>
            /\ ~pidWritten
            /\ ~dbusUp
            /\ socketOpens = 0
            /\ loopState = "before")
    /\ [](pidWritten =>
            /\ pfh # "NULL"
            /\ failCause = "none"
            /\ (runmode = "BB_RUN_DAEMON" => parentExit = EXIT_SUCCESS))
    /\ [](loopState # "before" =>
            /\ handlers = Signals
            /\ failCause = "none"
            /\ pidWritten = config.pid_file
            /\ (runmode = "BB_RUN_SERVER" => parentExit = -1)
            /\ (runmode = "BB_RUN_DAEMON" => parentExit = EXIT_SUCCESS))

\* C14 witness: a detached daemon with its group changed and its PID
\* written is running the event loop.
C14_Witness ==
    /\ loopState = "running"
    /\ runmode = "BB_RUN_DAEMON"
    /\ config.gid_name
    /\ pidWritten
    /\ parentExit = EXIT_SUCCESS


(***************************************************************************)
(* Service initialisation.                                                 *)
(***************************************************************************)

\* the window between the initial stop_secondary and the first client
\* served by the event loop
BeforeFirstClient ==
    /\ pc \in {"loop_new", "loop"}
    /\ ~served

UnlinkFailed == unlinkResult = "failed"

\* the final call to the power controller has failed
FinalPowerFailed == FinalCalls # <<>> /\ ~FinalCalls[1].ok

\* C16: whichever shutdown steps fail (the socket unlink, the final power
\* call), main stays in the shutdown sequence: once the loop has returned
\* the steps executed are a prefix of the nine and main stands at the next
\* one, the process exits only after the ninth and only with code 0, no
\* failure is recorded as fatal, and the sequence always runs to its end.
C16_FailedStepsDoNotAbort ==
    /\ [](loopState = "returned" =>
            \E n \in 0..Len(ShutdownSteps) :
                /\ StepsDoneUpTo(n)
                /\ pc = IF n < Len(ShutdownSteps)
                        THEN ShutdownSteps[n + 1]
                        ELSE "exited")
    /\ []((loopState = "returned" /\ pc = "exited") =>
            exitCode = EXIT_SUCCESS)
    /\ []((UnlinkFailed \/ FinalPowerFailed) => failCause = "none")
    /\ (loopState = "returned") ~>
            (CleanExit /\ StepsDoneUpTo(Len(ShutdownSteps)))

\* C16 witness: the socket unlink and the final power call have both
\* failed and the daemon has run all nine steps and exited with code 0.
C16_Witness ==
    /\ UnlinkFailed
    /\ FinalPowerFailed
    /\ CleanExit
    /\ StepsDoneUpTo(Len(ShutdownSteps))
    /\ sockPath


(***************************************************************************)
(* Frame of the signal handlers.                                           *)
(***************************************************************************)

\* a step of handle_signal
HandlerStep == nSig' # nSig \/ nPipe' # nPipe

\* what no case of handle_signal touches
HandlerFrame ==
    UNCHANGED <<pc, runmode, handlers, config, pfh, x_err_fd, logOpen,
                dbusUp, envVars>>

\* C17: a handler changes nothing but the control socket handle, the
\* stop-waiting flag and the SIGPIPE counter; SIGHUP changes none of them,
\* SIGPIPE changes only its counter, the stop-waiting flag changes only on
\* SIGTERM, and the run mode becomes BB_RUN_EXIT only in the third shutdown
\* step of main.
C17_HandlersFrame ==
    /\ [][HandlerStep => HandlerFrame]_vars
    /\ [][handle_signal("SIGHUP") =>
            /\ HandlerFrame
            /\ UNCHANGED <<bb_socket, dowait, sigpipes>>]_vars
    /\ [][handle_signal("SIGPIPE") =>
            /\ HandlerFrame
            /\ UNCHANGED <<bb_socket, dowait>>
            /\ sigpipes' \in {sigpipes, sigpipes + 1}]_vars
    /\ [][\A sig \in {"SIGINT", "SIGQUIT"} :
            handle_signal(sig) =>
                /\ HandlerFrame
                /\ UNCHANGED <<dowait, sigpipes>>
                /\ bb_socket' = "closed"]_vars
    /\ [][handle_signal("SIGTERM") =>
            /\ HandlerFrame
            /\ UNCHANGED sigpipes
            /\ bb_socket' = "closed"
            /\ dowait' = FALSE]_vars
    /\ [][dowait' # dowait => nTerm' = nTerm + 1]_vars
    /\ [][sigpipes' # sigpipes => nPipe' = nPipe + 1]_vars
    /\ [][(bb_socket = "open" /\ bb_socket' = "closed") => HandlerStep]_vars
    /\ [][(runmode' = "BB_RUN_EXIT" /\ runmode # "BB_RUN_EXIT") =>
            /\ ~HandlerStep
            /\ pc = "set_exit"
            /\ stepCount' = [stepCount EXCEPT !["set_exit"] = 1]]_vars

\* C17 witness: SIGHUP and SIGPIPE have been handled while the event loop
\* runs, and the socket is still open, the stop-waiting flag still unset
\* and the run mode still that of the startup.
C17_Witness ==
    /\ loopState = "running"
    /\ nSig >= 1
    /\ nTerm = 0
    /\ ~closeRequested
    /\ nPipe >= 1
    /\ sigpipes = nPipe
    /\ bb_socket = "open"
    /\ dowait
    /\ runmode # "BB_RUN_EXIT"


(***************************************************************************)
(* The pidfile.                                                            *)
(***************************************************************************)

\* causes logged when pidfile_open returns NULL
PidfileCauses == {"already_running", "pidfile_error"}

\* C18: a startup that fails to acquire the pidfile exits with failure
\* without ever having held, removed or released a pidfile, and without
\* writing a PID; a pidfile is released only by a process that acquired it.
C18_FailedAcquisitionLeavesPidfile ==
    /\ failCause \in PidfileCauses =>
          /\ pc = "exited"
          /\ exitCode = EXIT_FAILURE
          /\ pfh = "NULL"
          /\ pidReleases = 0
          /\ ~pidWritten
          /\ stepCount["pidfile_remove"] = 0
    /\ pidReleases >= 1 => (pfh = "released" /\ config.pid_file)
    /\ pfh # "NULL" => (config.pid_file /\ failCause \notin PidfileCauses)

\* C18 witness: the daemon has exited because another instance holds the
\* pidfile lock.
C18_Witness ==
    /\ failCause = "already_running"
    /\ pc = "exited"
    /\ config.pid_file
    /\ pidReleases = 0

\* C19: a daemon process that acquired the pidfile never terminates holding
\* it: on the group-change failure, on a daemonization failure and on the
\* clean shutdown the pidfile is released, once, before the exit, and it is
\* released nowhere else; the exit of the parent after a successful fork
\* releases nothing, the child goes on holding the pidfile.
C19_PidfileReleasedOnceOnExit ==
    /\ pidReleases <= 1
    /\ pfh = "held" => (pc # "exited" /\ pidReleases = 0)
    /\ (pc = "exited" /\ pfh # "NULL") =>
          /\ pfh = "released"
          /\ pidReleases = 1
    /\ pidReleases = 1 =>
          \/ pc = "exited"
          \/ pc \in {"stop_all", "close_xerr"}
    /\ (pc = "exited" /\ config.pid_file
            /\ failCause \notin (ValidationCauses \cup PidfileCauses)) =>
          pidReleases = 1
    /\ (parentExit = EXIT_SUCCESS /\ config.pid_file
            /\ pc \in {"setsid", "chdir", "devnull", "pidfile_write"}) =>
          (pfh = "held" /\ pidReleases = 0)

\* C19 witness: the parent has exited after the fork, and the child, which
\* failed to detach, has released the pidfile once and exited.
C19_Witness ==
    /\ parentExit = EXIT_SUCCESS
    /\ failCause = "setsid"
    /\ pc = "exited"
    /\ pfh = "released"
    /\ pidReleases = 1


(***************************************************************************)
(* SIGPIPE raised by the handler's own log writes.                         *)
(***************************************************************************)

\* C20: with a log whose every write raises SIGPIPE, each handler log write
\* raises one signal, the handler logs at most SIGPIPE_LIMIT + 1 of them, a
\* SIGPIPE handled past the limit writes nothing and raises nothing, main
\* stands still while a raised signal is handled, and every chain of raised
\* signals ends, leaving main free to go on.
C20_PipeChainTerminates ==
    /\ [](pipeLogs <= SIGPIPE_LIMIT + 1)
    /\ [](nRaised + (IF pendingPipe THEN 1 ELSE 0) = nSig + pipeLogs)
    /\ [](nRaised <= nSig + SIGPIPE_LIMIT + 1)
    /\ [](pendingPipe => ENABLED RaisedPipe)
    /\ [][pendingPipe =>
            /\ pc' = pc
            /\ nPipe' = nPipe + 1
            /\ sigpipes > SIGPIPE_LIMIT => ~pendingPipe']_vars
    /\ pendingPipe ~> (~pendingPipe /\ (pc # "exited" => ENABLED MainStep))

\* C20 witness: a SIGHUP logged while the event loop ran has set off a
\* chain of SIGPIPE signals that has used up the limit and ended, and main
\* is back in the event loop.
C20_Witness ==
    /\ logBroken
    /\ pc = "loop"
    /\ nSig = 1
    /\ nTerm = 0
    /\ ~closeRequested
    /\ ~pendingPipe
    /\ sigpipes = SIGPIPE_LIMIT + 1
    /\ pipeLogs = SIGPIPE_LIMIT + 1
    /\ nRaised = SIGPIPE_LIMIT + 2

=============================================================================
